---------------------------- MODULE Spec2Model ----------------------------
(* scripts/import_inventory.py: the field normalizers, insert_website and   *)
(* the row loop of main(), as a state machine.                              *)
(*                                                                          *)
(* Python strings are TLA+ strings (TLC treats them as sequences of         *)
(* characters: Len, SubSeq and \o work on them).  A Python value is a       *)
(* tagged record: None, PyStr(s), PyInt(n), PyBool(b), PyFloat(milli).      *)
EXTENDS Integers, Sequences, FiniteSets, TLC

VARIABLES
    pc,             \* position in main(): "loop", "retry", "classify", "done", "crashed";
                    \* "call" / "return" in the specifications of the pure functions
    nrows,          \* len(rows)
    start_from,     \* the resume offset, sys.argv[1]
    i,              \* index of the row the loop is at
    row,            \* the current RawRow (column name -> Str or None)
    attempt,        \* the retry loop's counter
    result, error,  \* what the last insert_website call returned
    success_count, skip_count, error_count, errors,
    store, next_id, \* the table website_inventory behind the endpoint
    calls,          \* history: insert_website calls made for the current row
    cooldowns,      \* history: time.sleep(60) pauses of the current row
    history,        \* history: the endpoint's answers for the current row
    outcome,        \* history: how the last finished row was classified
    stmt,           \* history: the last statement sent
    seen,           \* history: the Magazines column of every row read so far
    arg, ret        \* argument and return value of a pure function under test

vars == <<pc, nrows, start_from, i, row, attempt, result, error, success_count,
          skip_count, error_count, errors, store, next_id, calls, cooldowns,
          history, outcome, stmt, seen, arg, ret>>

-----------------------------------------------------------------------------
(* Python values *)

None == [t |-> "None"]
PyStr(s) == [t |-> "str", v |-> s]
PyInt(n) == [t |-> "int", v |-> n]
PyBool(b) == [t |-> "bool", v |-> b]
\* a float, held exactly as its value times 1000
PyFloat(m) == [t |-> "float", milli |-> m]

\* Python's truth value of a str-or-None: `not val` is ~Truthy(val)
Truthy(val) == val # None /\ val.v # ""

-----------------------------------------------------------------------------
(* str methods *)

Sub(s, a, b) == IF a > b THEN "" ELSE SubSeq(s, a, b)
Ch(s, k) == SubSeq(s, k, k)
From(s, k) == Sub(s, k, Len(s))
StartsWith(s, p) == Len(s) >= Len(p) /\ Sub(s, 1, Len(p)) = p

\* `needle in s`
Contains(s, needle) ==
    \E k \in 1..(Len(s) - Len(needle) + 1) : Sub(s, k, k + Len(needle) - 1) = needle

IsSpace(c) == c \in {" ", "\t", "\n", "\r"}

RECURSIVE lstrip(_)
lstrip(s) == IF s # "" /\ IsSpace(Ch(s, 1)) THEN lstrip(From(s, 2)) ELSE s

RECURSIVE rstrip(_)
rstrip(s) ==
    IF s # "" /\ IsSpace(Ch(s, Len(s))) THEN rstrip(Sub(s, 1, Len(s) - 1)) ELSE s

\* s.strip()
strip(s) == rstrip(lstrip(s))

\* s.rstrip(c) for a one-character c: every trailing c goes
RECURSIVE rstrip_char(_, _)
rstrip_char(s, c) ==
    IF s # "" /\ Ch(s, Len(s)) = c THEN rstrip_char(Sub(s, 1, Len(s) - 1), c) ELSE s

\* s.replace(c, '') for a one-character c: every occurrence goes
RECURSIVE remove_char(_, _)
remove_char(s, c) ==
    IF s = "" THEN ""
    ELSE (IF Ch(s, 1) = c THEN "" ELSE Ch(s, 1)) \o remove_char(From(s, 2), c)

LowerLetters == "abcdefghijklmnopqrstuvwxyz"
UpperLetters == "ABCDEFGHIJKLMNOPQRSTUVWXYZ"

Translate(c, from, to) ==
    IF \E k \in 1..Len(from) : Ch(from, k) = c
    THEN Ch(to, CHOOSE k \in 1..Len(from) : Ch(from, k) = c)
    ELSE c

RECURSIVE lower(_)
lower(s) ==
    IF s = "" THEN ""
    ELSE Translate(Ch(s, 1), UpperLetters, LowerLetters) \o lower(From(s, 2))

RECURSIVE upper(_)
upper(s) ==
    IF s = "" THEN ""
    ELSE Translate(Ch(s, 1), LowerLetters, UpperLetters) \o upper(From(s, 2))

Digits == "0123456789"
IsDigit(c) == \E k \in 1..10 : Ch(Digits, k) = c
DigitVal(c) == (CHOOSE k \in 1..10 : Ch(Digits, k) = c) - 1
AllDigits(s) == \A k \in 1..Len(s) : IsDigit(Ch(s, k))

RECURSIVE DigitsVal(_)
DigitsVal(s) ==
    IF s = "" THEN 0
    ELSE 10 * DigitsVal(Sub(s, 1, Len(s) - 1)) + DigitVal(Ch(s, Len(s)))

-----------------------------------------------------------------------------
(* int(s) and float(s) on a str: [ok |-> FALSE] is ValueError *)

HasSign(s) == s # "" /\ Ch(s, 1) \in {"+", "-"}
Unsigned(s) == IF HasSign(s) THEN From(s, 2) ELSE s
SignOf(s) == IF s # "" /\ Ch(s, 1) = "-" THEN -1 ELSE 1

\* digits, single underscores allowed between them (PEP 515)
IsDigitPart(s) ==
    /\ s # ""
    /\ \A k \in 1..Len(s) : IsDigit(Ch(s, k)) \/ Ch(s, k) = "_"
    /\ IsDigit(Ch(s, 1))
    /\ IsDigit(Ch(s, Len(s)))
    /\ \A k \in 1..(Len(s) - 1) : ~(Ch(s, k) = "_" /\ Ch(s, k + 1) = "_")

\* int(s): surrounding whitespace, an optional sign, then digits
py_int(s) ==
    LET body == Unsigned(strip(s))
    IN  IF IsDigitPart(body)
        THEN [ok |-> TRUE, v |-> SignOf(strip(s)) * DigitsVal(remove_char(body, "_"))]
        ELSE [ok |-> FALSE]

\* float(s) for decimal literals [sign] digits [. digits] | [sign] . digits,
\* exact to three decimals; exponents, inf and nan are not in the inputs used
py_float(s) ==
    LET body == Unsigned(strip(s))
        dots == {k \in 1..Len(body) : Ch(body, k) = "."}
        dot == IF dots = {} THEN Len(body) + 1 ELSE CHOOSE k \in dots : TRUE
        whole == Sub(body, 1, dot - 1)
        frac == Sub(body, dot + 1, Len(body))
        frac3 == Sub(frac \o "000", 1, 3)
    IN  IF /\ Cardinality(dots) <= 1
           /\ whole \o frac # ""
           /\ AllDigits(whole) /\ AllDigits(frac)
        THEN [ok |-> TRUE,
              milli |-> SignOf(strip(s)) * (1000 * DigitsVal(whole) + DigitsVal(frac3))]
        ELSE [ok |-> FALSE]

\* int(x) of a float truncates toward zero
Trunc(milli) == IF milli >= 0 THEN milli \div 1000 ELSE -((-milli) \div 1000)

-----------------------------------------------------------------------------
(* The field normalizers *)

parse_price(price_str) ==
    IF ~Truthy(price_str) \/ strip(price_str.v) = "" THEN PyInt(0)
    ELSE LET cleaned == strip(remove_char(remove_char(price_str.v, "$"), ","))
             f == py_float(cleaned)
         IN  IF f.ok THEN PyFloat(f.milli) ELSE PyInt(0)

parse_traffic(traffic_str) ==
    IF ~Truthy(traffic_str) \/ strip(traffic_str.v) = "" THEN PyInt(0)
    ELSE LET cleaned == strip(remove_char(upper(traffic_str.v), ","))
         IN  IF Contains(cleaned, "K")
             THEN LET f == py_float(remove_char(cleaned, "K"))
                  IN  IF f.ok THEN PyInt(f.milli) ELSE PyInt(0)
             ELSE IF Contains(cleaned, "M")
             THEN LET f == py_float(remove_char(cleaned, "M"))
                  IN  IF f.ok THEN PyInt(f.milli * 1000) ELSE PyInt(0)
             ELSE LET f == py_float(cleaned)
                  IN  IF f.ok THEN PyInt(Trunc(f.milli)) ELSE PyInt(0)

parse_bool(val) ==
    IF ~Truthy(val) THEN PyBool(FALSE)
    ELSE PyBool(lower(strip(val.v)) \in {"yes", "true", "1"})

parse_dofollow(val) ==
    IF ~Truthy(val) THEN PyBool(TRUE)
    ELSE LET v == lower(strip(val.v))
         IN  IF v \in {"yes", "true", "1"} THEN PyBool(TRUE)
             ELSE IF v \in {"no", "nofollow", "false", "0", "-"} THEN PyBool(FALSE)
             ELSE PyBool(TRUE)

\* re.sub(r'^https?://', '', url, flags=re.IGNORECASE)
strip_protocol_ignore_case(url) ==
    IF Len(url) >= 8 /\ lower(Sub(url, 1, 8)) = "https://" THEN From(url, 9)
    ELSE IF Len(url) >= 7 /\ lower(Sub(url, 1, 7)) = "http://" THEN From(url, 8)
    ELSE url

\* re.sub(r'^https?://', '', url): lower case only, no re.IGNORECASE
strip_protocol(url) ==
    IF StartsWith(url, "https://") THEN From(url, 9)
    ELSE IF StartsWith(url, "http://") THEN From(url, 8)
    ELSE url

\* re.sub(r'^www\.', '', url)
strip_www(url) == IF StartsWith(url, "www.") THEN From(url, 5) ELSE url

clean_website(url) ==
    IF ~Truthy(url) THEN None
    ELSE PyStr(rstrip_char(strip_www(strip_protocol(url.v)), "/"))

\* `return 0` in the except branch
parse_int_zero_on_failure(val) ==
    IF ~Truthy(val) \/ strip(val.v) = "" THEN None
    ELSE LET n == py_int(val.v) IN IF n.ok THEN PyInt(n.v) ELSE PyInt(0)

parse_int(val) ==
    IF ~Truthy(val) \/ strip(val.v) = "" THEN None
    ELSE LET n == py_int(val.v) IN IF n.ok THEN PyInt(n.v) ELSE None

-----------------------------------------------------------------------------
(* insert_website: the record, the statement, the answer *)

Columns ==
    {"Magazines", "Contact", "Category/Section", "DA", "AS", "New OT", "Price",
     "Indexed", "Do Follow", "News", "Sponsored", "CBD", "Casino", "Dating",
     "Crypto", "TAT"}

\* the keys of `data`, in the order the dict literal gives them
FieldOrder ==
    <<"website", "contact", "category", "da", "domain_rating", "organic_traffic",
      "client_price", "is_indexed", "do_follow", "news", "sponsored", "cbd",
      "casino", "dating", "crypto", "tat", "status">>

\* row.get(col, ''): every column of the header is a key of the row, so the
\* default is never used; a short line leaves its missing columns None
Get(r, col) == r[col]

\* `x.strip() or None`
strip_or_none(val) == IF strip(val.v) = "" THEN None ELSE PyStr(strip(val.v))

\* None.strip() raises AttributeError while the dict literal is evaluated
data_raises(r) == Get(r, "Contact") = None \/ Get(r, "Category/Section") = None

data(r) ==
    "website" :> clean_website(Get(r, "Magazines"))
    @@ "contact" :> strip_or_none(Get(r, "Contact"))
    @@ "category" :> strip_or_none(Get(r, "Category/Section"))
    @@ "da" :> parse_int(Get(r, "DA"))
    @@ "domain_rating" :> parse_int(Get(r, "AS"))
    @@ "organic_traffic" :> parse_traffic(Get(r, "New OT"))
    @@ "client_price" :> parse_price(Get(r, "Price"))
    @@ "is_indexed" :> parse_bool(Get(r, "Indexed"))
    @@ "do_follow" :> parse_dofollow(Get(r, "Do Follow"))
    @@ "news" :> parse_bool(Get(r, "News"))
    @@ "sponsored" :> parse_bool(Get(r, "Sponsored"))
    @@ "cbd" :> parse_bool(Get(r, "CBD"))
    @@ "casino" :> parse_bool(Get(r, "Casino"))
    @@ "dating" :> parse_bool(Get(r, "Dating"))
    @@ "crypto" :> parse_bool(Get(r, "Crypto"))
    @@ "tat" :> parse_int(Get(r, "TAT"))
    @@ "status" :> PyStr("active")

\* Python's truth value of any value of `data`
TruthyValue(v) ==
    CASE v.t = "None" -> FALSE
      [] v.t = "str" -> v.v # ""
      [] v.t = "int" -> v.v # 0
      [] v.t = "bool" -> v.v
      [] v.t = "float" -> v.milli # 0

\* the filter `if v` in place of `if v is not None`
included_if_truthy(v) == TruthyValue(v)

\* `if v is not None`
included(v) == v # None

\* [k for k, v in data.items() if v is not None]
fields_of(d) == SelectSeq(FieldOrder, LAMBDA k : included(d[k]))

\* [v for v in data.values() if v is not None]
values_of(d) ==
    SelectSeq([j \in 1..Len(FieldOrder) |-> d[FieldOrder[j]]], LAMBDA v : included(v))

\* [f'${i+1}' for i in range(len(fields))]
placeholders_of(fields) == [j \in 1..Len(fields) |-> "$" \o ToString((j - 1) + 1)]

RECURSIVE join(_, _)
join(sep, xs) ==
    IF xs = <<>> THEN ""
    ELSE IF Len(xs) = 1 THEN xs[1]
    ELSE xs[1] \o sep \o join(sep, Tail(xs))

\* the statement without its conflict clause
sql_of_plain_insert(fields, placeholders) ==
    "INSERT INTO website_inventory (" \o join(", ", fields) \o ") VALUES ("
    \o join(", ", placeholders) \o ") RETURNING id, website"

\* line 113
sql_of(fields, placeholders) ==
    "INSERT INTO website_inventory (" \o join(", ", fields) \o ") VALUES ("
    \o join(", ", placeholders)
    \o ") ON CONFLICT (website) DO NOTHING RETURNING id, website"

\* the json body of the POST
request_of(r) ==
    LET d == data(r)
        fields == fields_of(d)
    IN  [sql |-> sql_of(fields, placeholders_of(fields)),
         params |-> values_of(d),
         fields |-> fields,
         placeholders |-> placeholders_of(fields)]

NoRequest == [sql |-> "", params |-> <<>>, fields |-> <<>>, placeholders |-> <<>>]

(* What the endpoint can answer: requests.post or response.json() raises,   *)
(* or the body is a JSON object.  A key that is missing is None here.       *)
Raise(m) ==
    [raises |-> TRUE, msg |-> m, success |-> FALSE, rowCount |-> None,
     rows |-> <<>>, error |-> None]
Json(ok, rc, rs, e) ==
    [raises |-> FALSE, msg |-> "", success |-> ok, rowCount |-> rc,
     rows |-> rs, error |-> e]

\* result.get('rowCount', 0) > 0
positive_rowCount(resp) == resp.rowCount # None /\ resp.rowCount.v > 0

\* lines 126-135: the pair (result, error) made of the endpoint's answer
interpret(resp) ==
    IF resp.raises THEN <<None, PyStr(resp.msg)>>
    ELSE IF resp.success
    THEN IF positive_rowCount(resp)
         THEN IF resp.rows # <<>>
              THEN <<resp.rows[1], None>>
              ELSE <<None, PyStr("list index out of range")>>
         ELSE <<None, PyStr("Duplicate (skipped)")>>
    ELSE <<None, IF resp.error = None THEN PyStr("Unknown error") ELSE resp.error>>

-----------------------------------------------------------------------------
(* The table behind the endpoint, as the statement's conflict clause asks:  *)
(* INSERT ... ON CONFLICT (website) DO NOTHING RETURNING id, website.       *)

website_param(req) ==
    req.params[CHOOSE j \in 1..Len(req.fields) : req.fields[j] = "website"]

stored_row(req, id) ==
    [id |-> id, website |-> website_param(req).v, fields |-> req.fields,
     params |-> req.params]

\* what the table answers to a statement, and the table afterwards
execute(req, st, id) ==
    LET w == website_param(req).v
        conflict == \E r \in st : r.website = w
    IN  IF ~conflict
        THEN [resp |-> Json(TRUE, PyInt(1), <<[id |-> id, website |-> w]>>, None),
              store |-> st \cup {stored_row(req, id)},
              next_id |-> id + 1]
        ELSE IF Contains(req.sql, "ON CONFLICT (website) DO NOTHING")
        THEN [resp |-> Json(TRUE, PyInt(0), <<>>, None), store |-> st, next_id |-> id]
        ELSE [resp |-> Json(FALSE, None, <<>>,
                            PyStr("duplicate key value violates unique constraint")),
              store |-> st, next_id |-> id]

-----------------------------------------------------------------------------
(* main(): the row loop *)

retries == 3

\* the input file has at most MaxRows rows when the endpoint answers anything,
\* at most MaxStoreRows rows when it is the table
MaxRows == 2
MaxStoreRows == 3

\* `not row.get('Magazines')` alone, white space not stripped
blank_website_no_strip(r) == ~Truthy(Get(r, "Magazines"))

\* `not row.get('Magazines') or row.get('Magazines', '').strip() == ''`
blank_website(r) ==
    IF ~Truthy(Get(r, "Magazines")) THEN TRUE ELSE strip(Get(r, "Magazines").v) = ""

\* `error and 'Too many requests' in error`
rate_limited(err) == Truthy(err) /\ Contains(err.v, "Too many requests")

\* lines 173-177 with time.sleep(60) outside the `if`
after_attempt_sleep_always(att, err) ==
    [sleep |-> TRUE, again |-> rate_limited(err) /\ att + 1 < retries]

\* lines 173-177 without the `break`
after_attempt_no_break(att, err) ==
    [sleep |-> rate_limited(err), again |-> att + 1 < retries]

\* lines 173-177: whether the loop sleeps 60 s, and whether it calls again
after_attempt(att, err) ==
    [sleep |-> rate_limited(err), again |-> rate_limited(err) /\ att + 1 < retries]

\* lines 179-187: the branch taken
classification(res, err) ==
    IF res # None THEN "success"
    ELSE IF err = PyStr("Duplicate (skipped)") THEN "skipped"
    ELSE "error"

\* str(x) inside an f-string
format(x) == IF x = None THEN "None" ELSE x.v

\* f"Row {i+1} ({row.get('Magazines', 'unknown')}): {error}"
error_entry(idx, r, err) ==
    "Row " \o ToString(idx + 1) \o " (" \o format(Get(r, "Magazines")) \o "): "
    \o format(err)

-----------------------------------------------------------------------------
(* The inputs: rows of the file and answers of the endpoint *)

OtherColumns(contact, category, da, as, ot, price, flag, follow, tat) ==
    "Contact" :> contact @@ "Category/Section" :> category @@ "DA" :> da
    @@ "AS" :> as @@ "New OT" :> ot @@ "Price" :> price @@ "Indexed" :> flag
    @@ "Do Follow" :> follow @@ "News" :> flag @@ "Sponsored" :> flag
    @@ "CBD" :> flag @@ "Casino" :> flag @@ "Dating" :> flag @@ "Crypto" :> flag
    @@ "TAT" :> tat

\* a line with every column filled in
FullLine ==
    OtherColumns(PyStr(" Bob "), PyStr("Tech"), PyStr("42"), PyStr("55"),
                 PyStr("74K"), PyStr("$1,800"), PyStr("Yes"), PyStr("Nofollow"),
                 PyStr("3"))

\* a line whose other columns are empty strings
EmptyLine ==
    OtherColumns(PyStr(""), PyStr(""), PyStr(""), PyStr(""), PyStr(""), PyStr(""),
                 PyStr(""), PyStr(""), PyStr(""))

\* a line shorter than the header: csv.DictReader fills the rest with None
ShortLine == OtherColumns(None, None, None, None, None, None, None, None, None)

MagazinesInputs ==
    {None, PyStr(""), PyStr("  "), PyStr("https://www.Example.com/"),
     PyStr("Example.com"), PyStr("https://"), PyStr("other.org")}

RowsOf(lines) == {("Magazines" :> m) @@ line : m \in MagazinesInputs, line \in lines}

\* the rows of the input file
RawRows == RowsOf({FullLine, ShortLine})

\* the rows of the input file when the endpoint is the table: the same website
\* comes with different values in its other columns
StoreRows == RowsOf({FullLine, EmptyLine, ShortLine})

ErrorTexts ==
    {"Too many requests", "429 Too many requests, slow down",
     "Duplicate (skipped)", "syntax error"}

\* the answers the endpoint may give to the statement for website w: the
\* request fails, or the body is {success, rowCount, rows, error} with rows
\* holding the rowCount rows the statement returned
Responses(w) ==
    {Raise("Read timed out")}
    \cup {Json(TRUE, PyInt(1), <<[id |-> 1, website |-> w]>>, None)}
    \cup {Json(TRUE, rc, <<>>, None) : rc \in {None, PyInt(0)}}
    \cup {Json(FALSE, None, <<>>, e) : e \in {None} \cup {PyStr(t) : t \in ErrorTexts}}

-----------------------------------------------------------------------------
(* The state machine of main() *)

Idle ==
    /\ row = ("Magazines" :> PyStr("")) @@ EmptyLine
    /\ attempt = 0 /\ result = None /\ error = None
    /\ success_count = 0 /\ skip_count = 0 /\ error_count = 0 /\ errors = <<>>
    /\ store = {} /\ next_id = 1
    /\ calls = 0 /\ cooldowns = 0 /\ history = <<>> /\ outcome = "none"
    /\ stmt = NoRequest /\ seen = <<>>

Init ==
    /\ pc = "loop"
    /\ nrows \in 0..MaxRows
    /\ start_from \in 0..MaxRows
    /\ i = 0
    /\ Idle
    /\ arg = None /\ ret = None

InitStore ==
    /\ pc = "loop"
    /\ nrows \in 0..MaxStoreRows
    /\ start_from \in 0..MaxStoreRows
    /\ i = 0
    /\ Idle
    /\ arg = None /\ ret = None

\* lines 157-158: a row before the resume offset
SkipBeforeOffset ==
    /\ pc = "loop" /\ i < nrows /\ i < start_from
    /\ i' = i + 1
    /\ UNCHANGED <<pc, nrows, start_from, row, attempt, result, error,
                   success_count, skip_count, error_count, errors, store, next_id,
                   calls, cooldowns, history, outcome, stmt, seen, arg, ret>>

\* lines 161-165: a row whose Magazines column is blank
SkipBlankRow(rows) ==
    /\ pc = "loop" /\ i < nrows /\ i >= start_from
    /\ \E r \in rows : blank_website(r) /\ row' = r
    /\ skip_count' = skip_count + 1
    /\ i' = i + 1
    /\ outcome' = "skipped"
    /\ calls' = 0 /\ cooldowns' = 0 /\ history' = <<>> /\ stmt' = NoRequest
    /\ result' = None /\ error' = None /\ attempt' = 0
    /\ UNCHANGED <<pc, nrows, start_from, success_count, error_count, errors,
                   store, next_id, arg, ret>>

\* lines 167-171: the row enters the retry loop
BeginRetry(rows) ==
    /\ pc = "loop" /\ i < nrows /\ i >= start_from
    /\ \E r \in rows : ~blank_website(r) /\ row' = r
    /\ pc' = "retry"
    /\ attempt' = 0 /\ result' = None /\ error' = None
    /\ calls' = 0 /\ cooldowns' = 0 /\ history' = <<>> /\ stmt' = NoRequest
    /\ outcome' = "none"
    /\ UNCHANGED <<nrows, start_from, i, success_count, skip_count, error_count,
                   errors, store, next_id, arg, ret>>

SkipBlank == SkipBlankRow(RawRows) /\ UNCHANGED seen
BeginRow == BeginRetry(RawRows) /\ UNCHANGED seen

\* the same two steps, the Magazines column of the row kept in `seen`
SkipBlankSeen == SkipBlankRow(StoreRows) /\ seen' = Append(seen, Get(row', "Magazines"))
BeginRowSeen == BeginRetry(StoreRows) /\ seen' = Append(seen, Get(row', "Magazines"))

\* lines 172-177 once insert_website has returned (res, err)
Returned(res, err) ==
    LET next == after_attempt(attempt, err)
    IN  /\ result' = res
        /\ error' = err
        /\ calls' = calls + 1
        /\ cooldowns' = cooldowns + (IF next.sleep THEN 1 ELSE 0)
        /\ attempt' = IF next.again THEN attempt + 1 ELSE attempt
        /\ pc' = IF next.again THEN "retry" ELSE "classify"

\* lines 83-85: nothing is left of the website, no request is made
AttemptNoWebsite ==
    /\ pc = "retry" /\ attempt < retries
    /\ ~Truthy(clean_website(Get(row, "Magazines")))
    /\ Returned(None, PyStr("No website URL"))
    /\ UNCHANGED <<nrows, start_from, i, row, success_count, skip_count,
                   error_count, errors, store, next_id, history, outcome, stmt,
                   seen, arg, ret>>

\* lines 88-106: building `data` raises, outside the try: main() dies
AttemptRaises ==
    /\ pc = "retry" /\ attempt < retries
    /\ Truthy(clean_website(Get(row, "Magazines")))
    /\ data_raises(row)
    /\ pc' = "crashed"
    /\ calls' = calls + 1
    /\ UNCHANGED <<nrows, start_from, i, row, attempt, result, error,
                   success_count, skip_count, error_count, errors, store, next_id,
                   cooldowns, history, outcome, stmt, seen, arg, ret>>

\* lines 108-135: the statement is sent and the endpoint answers resp
Posted(resp) ==
    /\ history' = Append(history, resp)
    /\ Returned(interpret(resp)[1], interpret(resp)[2])
    /\ UNCHANGED <<nrows, start_from, i, row, success_count, skip_count,
                   error_count, errors, outcome, seen, arg, ret>>

CanPost ==
    /\ pc = "retry" /\ attempt < retries
    /\ Truthy(clean_website(Get(row, "Magazines")))
    /\ ~data_raises(row)

\* the endpoint is opaque: it answers anything
AttemptPost ==
    /\ CanPost
    /\ stmt' = request_of(row)
    /\ \E resp \in Responses(clean_website(Get(row, "Magazines")).v) : Posted(resp)
    /\ UNCHANGED <<store, next_id>>

\* the endpoint is the table and never fails
AttemptStore ==
    /\ CanPost
    /\ stmt' = request_of(row)
    /\ LET ex == execute(request_of(row), store, next_id)
       IN  /\ Posted(ex.resp)
           /\ store' = ex.store
           /\ next_id' = ex.next_id

\* lines 179-187
Classify ==
    /\ pc = "classify"
    /\ LET c == classification(result, error)
       IN  /\ outcome' = c
           /\ success_count' = success_count + (IF c = "success" THEN 1 ELSE 0)
           /\ skip_count' = skip_count + (IF c = "skipped" THEN 1 ELSE 0)
           /\ error_count' = error_count + (IF c = "error" THEN 1 ELSE 0)
           /\ errors' = IF c = "error"
                        THEN Append(errors, error_entry(i, row, error))
                        ELSE errors
    /\ i' = i + 1
    /\ pc' = "loop"
    /\ UNCHANGED <<nrows, start_from, row, attempt, result, error, store, next_id,
                   calls, cooldowns, history, stmt, seen, arg, ret>>

\* lines 189-192: the loop is over, the summary is printed
Finish ==
    /\ pc = "loop" /\ i >= nrows
    /\ pc' = "done"
    /\ UNCHANGED <<nrows, start_from, i, row, attempt, result, error,
                   success_count, skip_count, error_count, errors, store, next_id,
                   calls, cooldowns, history, outcome, stmt, seen, arg, ret>>

Next ==
    \/ SkipBeforeOffset
    \/ SkipBlank
    \/ BeginRow
    \/ AttemptNoWebsite
    \/ AttemptRaises
    \/ AttemptPost
    \/ Classify
    \/ Finish

Spec == Init /\ [][Next]_vars

NextStore ==
    \/ SkipBeforeOffset
    \/ SkipBlankSeen
    \/ BeginRowSeen
    \/ AttemptNoWebsite
    \/ AttemptRaises
    \/ AttemptStore
    \/ Classify
    \/ Finish

SpecStore == InitStore /\ [][NextStore]_vars

-----------------------------------------------------------------------------
(* The pure functions on their own: the argument is drawn in the initial    *)
(* state, one step applies the function.                                    *)

MaxParts == 4

UrlParts ==
    {"http://", "https://", "HTTP://", "Https://", "www.", "WWW.", "/",
     "Example.com", " "}

RECURSIVE Concatenations(_, _)
Concatenations(parts, n) ==
    IF n = 0 THEN {""}
    ELSE Concatenations(parts, n - 1)
         \cup {s \o p : s \in Concatenations(parts, n - 1), p \in parts}

WebsiteInputs == {None} \cup {PyStr(s) : s \in Concatenations(UrlParts, MaxParts)}

InitFunction(inputs) ==
    /\ pc = "call"
    /\ arg \in inputs
    /\ ret = None
    /\ nrows = 0 /\ start_from = 0 /\ i = 0
    /\ Idle

Return(value) ==
    /\ pc = "call"
    /\ ret' = value
    /\ pc' = "return"
    /\ UNCHANGED <<nrows, start_from, i, row, attempt, result, error,
                   success_count, skip_count, error_count, errors, store, next_id,
                   calls, cooldowns, history, outcome, stmt, seen, arg>>

CallCleanWebsite == Return(clean_website(arg))

SpecClean == InitFunction(WebsiteInputs) /\ [][CallCleanWebsite]_vars

MaxChars == 3

IntParts == {"4", "2", "0", "-", "+", " ", ".", "_", "a"}

IntInputs == {None} \cup {PyStr(s) : s \in Concatenations(IntParts, MaxChars)}

CallParseInt == Return(parse_int(arg))

SpecInt == InitFunction(IntInputs) /\ [][CallParseInt]_vars

\* insert_website up to the request: what it sends, if it gets that far
Raised == [raised |-> TRUE]

request_or_none(r) ==
    IF ~Truthy(clean_website(Get(r, "Magazines"))) THEN NoRequest
    ELSE IF data_raises(r) THEN Raised
    ELSE request_of(r)

StatementInputs ==
    {("Magazines" :> m) @@ OtherColumns(contact, category, da, PyStr("55"), ot, price,
                                        flag, follow, tat) :
        m \in {PyStr("https://www.Example.com/"), PyStr("https://")},
        contact \in {None, PyStr(""), PyStr(" Bob ")},
        category \in {PyStr(" "), PyStr("Tech")},
        da \in {PyStr(""), PyStr("0"), PyStr("42"), PyStr("abc")},
        ot \in {PyStr(""), PyStr("74K"), PyStr("garbage")},
        price \in {PyStr(""), PyStr("$1,800"), PyStr("free")},
        flag \in {None, PyStr("Yes"), PyStr("No")},
        follow \in {PyStr(""), PyStr("Nofollow"), PyStr("maybe")},
        tat \in {None, PyStr("3")}}

CallInsertWebsite == Return(request_or_none(arg))

SpecStatement == InitFunction(StatementInputs) /\ [][CallInsertWebsite]_vars

-----------------------------------------------------------------------------
(* Properties *)

\* what insert_website returned for the k-th answer of the current row
ReturnedError(k) == interpret(history[k])[2]
ReturnedRow(k) == interpret(history[k])[1]

TwoRateLimitsThenInserted ==
    /\ Len(history) = 3
    /\ rate_limited(ReturnedError(1))
    /\ rate_limited(ReturnedError(2))
    /\ ReturnedRow(3) # None

(* C1: a row whose first two calls return a rate-limit error and whose      *)
(* third call returns an inserted row is classified as one success:         *)
(* success_count goes up by one, error_count, skip_count and errors stay,   *)
(* three calls were made and two 60-second pauses were taken.               *)
C1_RetryThenSuccess ==
    [][(pc = "classify" /\ TwoRateLimitsThenInserted)
        => /\ success_count' = success_count + 1
           /\ error_count' = error_count
           /\ skip_count' = skip_count
           /\ errors' = errors
           /\ outcome' = "success"
           /\ calls = 3
           /\ cooldowns = 2]_vars

C1_Witness ==
    /\ pc = "loop"
    /\ outcome = "success"
    /\ TwoRateLimitsThenInserted
    /\ success_count = 1
    /\ cooldowns = 2

ThreeRateLimits ==
    /\ Len(history) = 3
    /\ \A k \in 1..3 : rate_limited(ReturnedError(k))

(* C2: insert_website is called at most `retries` = 3 times for a row, a    *)
(* call after the first follows a call that returned a rate-limit error, and *)
(* a row whose three attempts are all rate-limited becomes exactly one      *)
(* error, whose entry carries the message of the last attempt.              *)
C2_RetryBudget ==
    /\ [](calls <= retries)
    /\ [][(calls' = calls + 1 /\ calls >= 1) => rate_limited(error)]_vars
    /\ [][(pc = "classify" /\ ThreeRateLimits)
           => /\ outcome' = "error"
              /\ error_count' = error_count + 1
              /\ errors' = Append(errors, error_entry(i, row, history[3].error))
              /\ success_count' = success_count
              /\ skip_count' = skip_count]_vars

C2_Witness ==
    /\ pc = "loop"
    /\ outcome = "error"
    /\ ThreeRateLimits
    /\ history[3].error # history[2].error
    /\ calls = 3
    /\ error_count = 1
    /\ Len(errors) = 1

\* the outcome the endpoint's final answer stands for
AnswerOutcome(resp) ==
    IF ~resp.raises /\ resp.success
    THEN IF positive_rowCount(resp) THEN "success" ELSE "skipped"
    ELSE "error"

\* a column that is missing, empty or white space
IsBlank(val) == IF val = None THEN TRUE ELSE strip(val.v) = ""

\* the outcome of a finished row as C3 gives it
ExpectedOutcome(r, answers) ==
    IF IsBlank(r["Magazines"]) THEN "skipped"
    ELSE IF answers = <<>> THEN "error"
    ELSE AnswerOutcome(answers[Len(answers)])

CountedOnce(c) ==
    /\ success_count' = success_count + (IF c = "success" THEN 1 ELSE 0)
    /\ skip_count' = skip_count + (IF c = "skipped" THEN 1 ELSE 0)
    /\ error_count' = error_count + (IF c = "error" THEN 1 ELSE 0)
    /\ Len(errors') = Len(errors) + (IF c = "error" THEN 1 ELSE 0)

\* a step that finishes a row at or after the resume offset
RowFinishes == i' = i + 1 /\ i >= start_from

(* C3: every row at or after the resume offset is classified, and gets the  *)
(* one outcome its final attempt stands for (success: success=true with a   *)
(* positive rowCount; skipped: blank website column, or success=true with   *)
(* no row affected; error: anything else), exactly one counter goes up by   *)
(* one, rows before the offset change nothing, and len(errors) =            *)
(* error_count.                                                             *)
C3_OutcomeMatchesFinalAttempt ==
    /\ [](Len(errors) = error_count)
    /\ [](pc \in {"loop", "retry", "classify", "done"})
    /\ [][RowFinishes
           => /\ outcome' = ExpectedOutcome(row', history')
              /\ CountedOnce(ExpectedOutcome(row', history'))]_vars
    /\ [][(i' = i + 1 /\ i < start_from)
           => UNCHANGED <<success_count, skip_count, error_count, errors, calls,
                          history>>]_vars

\* nothing of the website column is left for a record
NothingLeft(r) ==
    IF IsBlank(r["Magazines"]) THEN FALSE ELSE clean_website(r["Magazines"]).v = ""
NoWebsitePresent(r) == IsBlank(r["Magazines"]) \/ NothingLeft(r)

(* C4: a row with no website (a blank column, or nothing left after         *)
(* clean_website) is counted as skipped, not as an error, adds nothing to   *)
(* errors and is never submitted.                                           *)
C4_NoWebsiteIsSkipped ==
    [][(RowFinishes /\ NoWebsitePresent(row'))
        => /\ outcome' = "skipped"
           /\ skip_count' = skip_count + 1
           /\ error_count' = error_count
           /\ errors' = errors
           /\ history' = <<>>]_vars

(* C4 as the code has it: a row with no website is never submitted; with a  *)
(* blank website column it is counted as skipped and adds nothing to        *)
(* errors; with a column of which clean_website leaves nothing it is        *)
(* counted as one error, with the message "No website URL".                 *)
C4_NoWebsiteNeverSubmitted ==
    [][(RowFinishes /\ NoWebsitePresent(row'))
        => /\ history' = <<>>
           /\ stmt' = NoRequest
           /\ success_count' = success_count
           /\ IF IsBlank(row'["Magazines"])
              THEN /\ outcome' = "skipped"
                   /\ skip_count' = skip_count + 1
                   /\ error_count' = error_count
                   /\ errors' = errors
              ELSE /\ outcome' = "error"
                   /\ skip_count' = skip_count
                   /\ error_count' = error_count + 1
                   /\ errors' = Append(errors,
                                       error_entry(i, row', PyStr("No website URL")))]_vars

C4_Witness ==
    /\ pc = "loop"
    /\ NothingLeft(row)
    /\ outcome = "error"
    /\ error = PyStr("No website URL")
    /\ calls = 1
    /\ history = <<>>
    /\ error_count = 1 /\ skip_count = 1

(* C5: no row aborts the run: whatever the row holds and whatever the       *)
(* endpoint does, nothing propagates out of the row loop.                   *)
C5_NoRowAbortsTheRun == pc # "crashed"

\* the rows read so far whose website column holds a website
PresentRows ==
    {j \in 1..Len(seen) : ~IsBlank(seen[j]) /\ Truthy(clean_website(seen[j]))}
\* the rows read so far whose website column is blank
BlankRows == {j \in 1..Len(seen) : IsBlank(seen[j])}
DistinctWebsites == {clean_website(seen[j]) : j \in PresentRows}

(* C6: with the table as endpoint, empty at the start, a full run from      *)
(* offset 0 ends in its summary, with successes = the distinct websites of the input,       *)
(* skipped = the repeated websites plus the rows with a blank website       *)
(* column, and no error.                                                    *)
C6_FullRunTally ==
    (pc \in {"done", "crashed"} /\ start_from = 0)
        => /\ pc = "done"
           /\ success_count = Cardinality(DistinctWebsites)
           /\ skip_count = (Cardinality(PresentRows) - Cardinality(DistinctWebsites))
                           + Cardinality(BlankRows)
           /\ error_count = 0

WebsiteStored(w) == \E r \in store : r.website = w

(* C7: the table holds one row per website; a record submitted for a        *)
(* website that is already there leaves the table as it was and comes back  *)
(* as a duplicate, which is counted as skipped and not as an error.         *)
C7_SecondSubmissionIsDuplicate ==
    /\ [](\A r1, r2 \in store : r1.website = r2.website => r1 = r2)
    /\ [][(CanPost /\ WebsiteStored(clean_website(Get(row, "Magazines")).v)
           /\ calls' = calls + 1)
           => /\ store' = store
              /\ result' = None
              /\ error' = PyStr("Duplicate (skipped)")
              /\ pc' = "classify"]_vars
    /\ [][(pc = "classify" /\ error = PyStr("Duplicate (skipped)") /\ result = None)
           => /\ outcome' = "skipped"
              /\ skip_count' = skip_count + 1
              /\ error_count' = error_count
              /\ errors' = errors]_vars

\* the same record was submitted twice and is stored once, as first stored
C7_Witness ==
    /\ pc = "loop"
    /\ outcome = "skipped"
    /\ error = PyStr("Duplicate (skipped)")
    /\ Cardinality(store) = 1
    /\ \E r \in store : r.params = stmt.params /\ r.fields = stmt.fields
    /\ skip_count = 1 /\ success_count = 1 /\ error_count = 0

IsRequest(x) == x # None /\ x # NoRequest /\ x # Raised

IndexIn(seq, x) == CHOOSE j \in 1..Len(seq) : seq[j] = x
Elements(seq) == {seq[j] : j \in 1..Len(seq)}

Prefix(s, n) == Sub(s, 1, IF Len(s) < n THEN Len(s) ELSE n)

\* clean_website as C9 describes it
clean_website_as_claimed(url) ==
    IF ~Truthy(url) THEN None
    ELSE LET s0 == url.v
             s1 == IF lower(Prefix(s0, 8)) = "https://" THEN From(s0, 9)
                   ELSE IF lower(Prefix(s0, 7)) = "http://" THEN From(s0, 8)
                   ELSE s0
             s2 == IF Prefix(s1, 4) = "www." THEN From(s1, 5) ELSE s1
             s3 == IF s2 # "" /\ Ch(s2, Len(s2)) = "/"
                   THEN Sub(s2, 1, Len(s2) - 1) ELSE s2
         IN  PyStr(s3)

(* C9: clean_website removes a leading http:// or https:// in any letter    *)
(* case, then one leading www., then exactly one trailing /, and keeps the  *)
(* case of the rest; blank input gives None.                                *)
C9_CleanWebsiteAsClaimed ==
    pc = "return" => ret = clean_website_as_claimed(arg)

\* what clean_website takes off the front of s
Protocol(s) ==
    IF Prefix(s, 8) = "https://" THEN "https://"
    ELSE IF Prefix(s, 7) = "http://" THEN "http://"
    ELSE ""
Leading(s) ==
    Protocol(s) \o (IF Prefix(From(s, Len(Protocol(s)) + 1), 4) = "www." THEN "www." ELSE "")

OnlySlashes(s) == \A k \in 1..Len(s) : Ch(s, k) = "/"

(* C9 as the code has it: None for a missing or empty argument; otherwise   *)
(* the argument without a leading http:// or https:// written in lower      *)
(* case, without one www. after that, and without any of its trailing /;    *)
(* what is left keeps its letter case.                                      *)
C9_CleanWebsiteCuts ==
    pc = "return"
        => IF arg = None \/ arg = PyStr("") THEN ret = None
           ELSE /\ ret # None
                /\ LET s == arg.v
                       r == ret.v
                       cut == Len(Leading(s))
                   IN  /\ cut + Len(r) <= Len(s)
                       /\ Sub(s, cut + 1, cut + Len(r)) = r
                       /\ OnlySlashes(From(s, cut + Len(r) + 1))
                       /\ r = "" \/ Ch(r, Len(r)) # "/"

C9_Witness ==
    /\ pc = "return"
    /\ arg = PyStr("HTTP://Example.com//")
    /\ ret = PyStr("HTTP://Example.com")

(* C10: parse_int gives None or a non-negative integer read from digits     *)
(* only: anything that is not a plain digit string gives None.              *)
C10_ParseIntDigitsOnly ==
    pc = "return"
        => IF Truthy(arg) /\ AllDigits(arg.v)
           THEN ret = PyInt(DigitsVal(arg.v))
           ELSE ret = None

HasOneOf(s, chars) == \E k \in 1..Len(s) : \E c \in chars : Ch(s, k) = c

(* C10 as the code has it: None for a missing or blank argument and for     *)
(* text that is no integer (a decimal point, a letter, a sign alone);       *)
(* digits give their value, digits after a - give the negated value, so a   *)
(* result can be negative; 0 comes from digits that are all 0, never from   *)
(* text that does not parse.                                                *)
C10_ParseIntReadsSignedIntegers ==
    pc = "return"
        => /\ IsBlank(arg) => ret = None
           /\ (arg # None /\ HasOneOf(arg.v, {".", "a"})) => ret = None
           /\ (arg # None /\ arg.v \in {"+", "-"}) => ret = None
           /\ (Truthy(arg) /\ AllDigits(arg.v)) => ret = PyInt(DigitsVal(arg.v))
           /\ (arg # None /\ Len(arg.v) >= 2 /\ Ch(arg.v, 1) = "-"
               /\ AllDigits(From(arg.v, 2)))
                  => ret = PyInt(0 - DigitsVal(From(arg.v, 2)))
           /\ ret # None
                  => LET kept == remove_char(remove_char(remove_char(remove_char(
                                     arg.v, " "), "+"), "-"), "_")
                     IN  /\ kept # "" /\ AllDigits(kept)
                         /\ ret \in {PyInt(DigitsVal(kept)), PyInt(0 - DigitsVal(kept))}

C10_Witness ==
    /\ pc = "return"
    /\ arg = PyStr("-42")
    /\ ret = PyInt(0 - 42)

====
